---- MODULE Spec2Model ----
(***************************************************************************)
(* Message::parse of src/src/parsers/message.rs: the MIME traversal engine *)
(* (two stacks, one outer loop, one inner unwind loop), the classifier     *)
(* get_mime_type, the placement of leaves in html_body / text_body /       *)
(* attachments, and the synthesis of the missing flavour of a              *)
(* multipart/alternative.                                                  *)
(*                                                                         *)
(* The input is a byte slice read left to right by a cursor that never     *)
(* moves back.  It is modelled as a sequence of len tokens: a header       *)
(* block, or a payload up to and including the delimiter line that ends    *)
(* it (the last payload runs to the end of the input).  The content of a   *)
(* token is drawn when the cursor reaches it.  A delimiter line is the     *)
(* boundary, the "--" of a terminal delimiter if any, and the line         *)
(* terminator; the cursor counts the token as read once it is past the     *)
(* boundary, and at_delimiter says that it stands right there.  missing    *)
(* is the set of boundaries a scan has shown not to occur in the rest of   *)
(* the input: a later scan cannot find them.                               *)
(***************************************************************************)
EXTENDS Integers, Sequences, FiniteSets, TLC

\* Length of the longest input, in tokens.
MaxLen == 8

\* Option<T>: None is <<>>, Some(x) is <<x>>.
None == << >>
Some(x) == << x >>
IsSome(o) == o # << >>
Unwrap(o) == o[1]

Last(s) == s[Len(s)]
Front(s) == SubSeq(s, 1, Len(s) - 1)

\* The boundary attributes that occur in the inputs.
Boundaries == {"X", "Y"}

-----------------------------------------------------------------------------
(* Headers *)

ContentType(t, st, b, n) == [type |-> t, subtype |-> st, boundary |-> b, name |-> n]

\* Headers::new(): an empty header map.  Of a header map the parser reads
\* Content-Type, Content-Transfer-Encoding and Content-Disposition; other
\* says that some other field (Subject, ...) is present.
NewHeaders ==
    [content_type |-> None, encoding |-> None, disposition |-> None, other |-> FALSE]

HeadersIsEmpty(h) ==
    /\ h.content_type = None
    /\ h.encoding = None
    /\ h.disposition = None
    /\ ~h.other

Block(ct, enc, disp) ==
    [content_type |-> ct, encoding |-> enc, disposition |-> disp, other |-> FALSE]

\* A header block without MIME fields ("Subject: hi").
PlainBlock == [NewHeaders EXCEPT !.other = TRUE]

MultipartBlocks ==
    { Block(Some(ContentType("multipart", Some(st), Some("X"), FALSE)), None, None) :
        st \in {"alternative", "related", "digest"} }
    \cup { Block(Some(ContentType("multipart", Some("mixed"), b, FALSE)), None, None) :
        b \in {Some("Y"), None} }

LeafBlocks ==
    { Block(Some(ContentType(ts[1], Some(ts[2]), None, FALSE)), None, None) :
        ts \in { <<"text", "plain">>, <<"text", "html">>, <<"image", "png">>,
                 <<"application", "pdf">>, <<"message", "rfc822">> } }
    \cup { Block(Some(ContentType("text", Some("html"), None, FALSE)), None, Some("attachment")),
           Block(Some(ContentType("text", Some("plain"), None, TRUE)), None, None),
           Block(Some(ContentType("text", Some("plain"), None, FALSE)), Some("base64"), None) }

\* The header blocks an input can hold at the cursor.
HeaderBlocks == {PlainBlock} \cup MultipartBlocks \cup LeafBlocks

\* parse_headers adds the fields of block b to the map h.
AddFields(h, b) ==
    [content_type |-> IF IsSome(b.content_type) THEN b.content_type ELSE h.content_type,
     encoding |-> IF IsSome(b.encoding) THEN b.encoding ELSE h.encoding,
     disposition |-> IF IsSome(b.disposition) THEN b.disposition ELSE h.disposition,
     other |-> h.other \/ b.other]

\* ContentType::has_attribute("name"), ContentType::is_attachment
HasName(ct) == ct.name
IsAttachment(h) == h.disposition = Some("attachment")

-----------------------------------------------------------------------------
(* enum MimeType and get_mime_type *)

MimeTypes ==
    {"MultipartMixed", "MultipartAlernative", "MultipartRelated", "MultipartDigest",
     "TextPlain", "TextHtml", "TextOther", "Inline", "Message", "Other"}

MultipartSubtype(st) ==
    CASE st = Some("mixed") -> "MultipartMixed"
      [] st = Some("alternative") -> "MultipartAlernative"
      [] st = Some("related") -> "MultipartRelated"
      [] st = Some("digest") -> "MultipartDigest"
      [] OTHER -> "Other"

\* A mutant of get_mime_type: the parent level is not consulted.
GetMimeTypeNoParent(content_type, parent_content_type) ==
    IF IsSome(content_type)
    THEN LET ct == Unwrap(content_type) IN
         CASE ct.type = "multipart" -> <<TRUE, FALSE, FALSE, MultipartSubtype(ct.subtype)>>
           [] ct.type = "text" ->
                CASE ct.subtype = Some("plain") -> <<FALSE, TRUE, TRUE, "TextPlain">>
                  [] ct.subtype = Some("html") -> <<FALSE, TRUE, TRUE, "TextHtml">>
                  [] OTHER -> <<FALSE, FALSE, TRUE, "TextOther">>
           [] ct.type \in {"image", "audio", "video"} -> <<FALSE, TRUE, FALSE, "Inline">>
           [] ct.type = "message" /\ ct.subtype = Some("rfc822") ->
                <<FALSE, FALSE, FALSE, "Message">>
           [] OTHER -> <<FALSE, FALSE, FALSE, "Other">>
    ELSE <<FALSE, TRUE, TRUE, "TextPlain">>

\* get_mime_type: <<is_multipart, is_inline, is_text, mime_type>>
GetMimeType(content_type, parent_content_type) ==
    IF IsSome(content_type)
    THEN LET ct == Unwrap(content_type) IN
         CASE ct.type = "multipart" -> <<TRUE, FALSE, FALSE, MultipartSubtype(ct.subtype)>>
           [] ct.type = "text" ->
                CASE ct.subtype = Some("plain") -> <<FALSE, TRUE, TRUE, "TextPlain">>
                  [] ct.subtype = Some("html") -> <<FALSE, TRUE, TRUE, "TextHtml">>
                  [] OTHER -> <<FALSE, FALSE, TRUE, "TextOther">>
           [] ct.type \in {"image", "audio", "video"} -> <<FALSE, TRUE, FALSE, "Inline">>
           [] ct.type = "message" /\ ct.subtype = Some("rfc822") ->
                <<FALSE, FALSE, FALSE, "Message">>
           [] OTHER -> <<FALSE, FALSE, FALSE, "Other">>
    ELSE IF parent_content_type = "MultipartDigest"
         THEN <<FALSE, FALSE, FALSE, "Message">>
         ELSE <<FALSE, TRUE, TRUE, "TextPlain">>

-----------------------------------------------------------------------------
(* DecodeResult, and the strings and bytes made of it *)

Borrowed(from, to) == [k |-> "Borrowed", from |-> from, to |-> to]
\* Owned(vec): the bytes a decoder produced from data[from..to]
Owned(from, to) == [k |-> "Owned", from |-> from, to |-> to]
Empty == [k |-> "Empty", from |-> 0, to |-> 0]

\* A string: its source (the bytes of the input it was read from, the bytes
\* a decoder made of them, or the one-character "\n") and the conversions
\* applied to it since, oldest first.  The parts of the inputs name no charset.
ResultToString(r) ==
    CASE r.k = "Owned" -> [src |-> "decoded", from |-> r.from, to |-> r.to, conv |-> << >>]
      [] r.k = "Borrowed" -> [src |-> "data", from |-> r.from, to |-> r.to, conv |-> << >>]
      [] OTHER -> [src |-> "\n", from |-> 0, to |-> 0, conv |-> << >>]

ResultToBytes(r) ==
    CASE r.k = "Owned" -> [src |-> "decoded", from |-> r.from, to |-> r.to]
      [] r.k = "Borrowed" -> [src |-> "data", from |-> r.from, to |-> r.to]
      [] OTHER -> [src |-> "?", from |-> 0, to |-> 0]

HtmlToText(s) == [s EXCEPT !.conv = Append(@, "html_to_text")]
TextToHtml(s) == [s EXCEPT !.conv = Append(@, "text_to_html")]

-----------------------------------------------------------------------------
(* Message, MessagePart, InlinePart, MessageParserState *)

\* Message::new().  mid is not a field of the program's Message: it names the
\* message by the cursor position at which it was created (0 for the root).
NewMessage(id) ==
    [headers |-> NewHeaders, html_body |-> << >>, text_body |-> << >>,
     attachments |-> << >>, mid |-> id]

MessageIsEmpty(m) == HeadersIsEmpty(m.headers)

TextPart(headers, contents) == [headers |-> headers, contents |-> contents]
BinaryPart(headers, contents) == [headers |-> headers, contents |-> contents]

InlineText(tp) == [tag |-> "Text", part |-> tp]
InlineBinaryIndex(i) == [tag |-> "InlineBinary", index |-> i]

PartText(tp) == [tag |-> "Text", part |-> tp]
PartBinary(bp) == [tag |-> "Binary", part |-> bp]
PartInlineBinary(bp) == [tag |-> "InlineBinary", part |-> bp]
PartMessage(m) == [tag |-> "Message", message |-> m]

\* MessageParserState::new()
NewState ==
    [mime_type |-> "Message", mime_boundary |-> None, in_alternative |-> FALSE,
     parts |-> 0, html_parts |-> 0, text_parts |-> 0,
     need_html_body |-> TRUE, need_text_body |-> TRUE]

-----------------------------------------------------------------------------
VARIABLES
    len,              \* stream.data.len(), in tokens
    pos,              \* stream.pos
    missing,          \* boundaries known not to occur in data[pos..]
    at_delimiter,     \* the cursor is right after the boundary of a delimiter
    message,          \* the current message
    message_stack,    \* the parent messages, innermost last
    state,            \* the current MessageParserState
    state_stack,      \* the parent states, innermost last
    mime_part_header, \* the scratch header map of a MIME part
    it,               \* the locals of the latest iteration of a loop
    pc,               \* "outer": at 'outer; "inner": at 'inner; "post"; "done"
    result            \* what parse returned

vars == <<len, pos, missing, at_delimiter, message, message_stack, state, state_stack,
          mime_part_header, it, pc, result>>

NoLocals(step) ==
    [step |-> step, header |-> NewHeaders, mime_type |-> "Other",
     is_inline |-> FALSE, is_text |-> FALSE,
     add_to_html |-> FALSE, add_to_text |-> FALSE, recovered |-> FALSE]

Init ==
    /\ len \in 0..MaxLen
    /\ pos = 0
    /\ missing = {}
    /\ at_delimiter = FALSE
    /\ message = NewMessage(0)
    /\ message_stack = << >>
    /\ state = NewState
    /\ state_stack = << >>
    /\ mime_part_header = NewHeaders
    /\ it = NoLocals("start")
    /\ pc = "outer"
    /\ result = None

-----------------------------------------------------------------------------
(* The cursor and the scanners of parsers/mime.rs and the decoders, by     *)
(* what they read at position p of an input in which the boundaries of     *)
(* miss do not occur from p on.  Each gives the set of its possible        *)
(* outcomes over all inputs.                                               *)

\* parse_headers returns true iff it parsed a field: at the end of the input
\* it cannot; elsewhere the input decides.
ParseHeaders(p) ==
    {[ok |-> FALSE, block |-> NewHeaders, pos |-> p]}
    \cup (IF p < len THEN {[ok |-> TRUE, block |-> b, pos |-> p + 1] : b \in HeaderBlocks}
          ELSE {})

\* skip_crlf: the line terminator is part of the token before the cursor.
SkipCrlf(p) == p

\* seek_next_part: the cursor is left after the next occurrence of "\n--" b.
SeekNextPart(p, miss, b) ==
    {[found |-> FALSE, pos |-> p, missing |-> miss \cup {b}]}
    \cup (IF p < len /\ b \notin miss
          THEN {[found |-> TRUE, pos |-> p + 1, missing |-> miss]}
          ELSE {})

\* skip_multipart_end: true iff "--" is at the cursor, which then moves past
\* it: within the delimiter line when the cursor is right after a boundary
\* (ad), and nowhere else.
SkipMultipartEnd(p, ad) ==
    {[end |-> FALSE, pos |-> p]}
    \cup (IF ad THEN {[end |-> TRUE, pos |-> p]} ELSE {})

\* get_bytes_to_boundary: the bytes up to the boundary (read counts the
\* boundary too), or to the end of the input when the boundary is empty;
\* (0, Empty) when nothing is consumed.
GetBytesToBoundary(p, miss, boundary) ==
    IF boundary = None
    THEN IF p < len
         THEN {[read |-> len - p, res |-> Borrowed(p, len), missing |-> miss,
                delim |-> FALSE]}
         ELSE {[read |-> 0, res |-> Empty, missing |-> miss, delim |-> FALSE]}
    ELSE {[read |-> 0, res |-> Empty, missing |-> miss \cup {Unwrap(boundary)},
           delim |-> FALSE]}
         \cup (IF p < len /\ Unwrap(boundary) \notin miss
               THEN {[read |-> 1, res |-> Borrowed(p, p + 1), missing |-> miss,
                      delim |-> TRUE]}
               ELSE {})

\* decode_base64, decode_quoted_printable: the decoded bytes up to the
\* boundary (to the end of the input without one); 0 bytes read when the
\* payload is not in that encoding or the boundary does not follow.
DecodeEncoded(p, miss, boundary) ==
    {[read |-> 0, res |-> Empty, missing |-> miss, delim |-> FALSE]}
    \cup (IF p < len /\ (boundary = None \/ Unwrap(boundary) \notin miss)
          THEN {[read |-> IF boundary = None THEN len - p ELSE 1,
                 res |-> Owned(p, IF boundary = None THEN len ELSE p + 1),
                 missing |-> miss, delim |-> IsSome(boundary)]}
          ELSE {})

-----------------------------------------------------------------------------
(* The body of the outer loop, piece by piece *)

\* The header map the outer loop parses into: the message's own when the
\* level is an embedded (or the root) message, the scratch map otherwise.
HeaderTarget(st, msg, mph) ==
    IF st.mime_type = "Message" THEN msg.headers ELSE mph

\* Content-Transfer-Encoding -> is_binary (true: the payload is read raw)
IsBinary(header) ==
    ~(header.encoding \in {Some("base64"), Some("quoted-printable")})

\* A mutant of MultipartState: html_parts is one more than the length.
MultipartStateSnapshotOff(st, msg, mime_type, boundary) ==
    [in_alternative |-> st.in_alternative \/ mime_type = "MultipartAlernative",
     mime_type |-> mime_type,
     mime_boundary |-> Some(boundary),
     parts |-> 0,
     html_parts |-> Len(msg.html_body) + 1,
     text_parts |-> Len(msg.text_body),
     need_html_body |-> st.need_html_body,
     need_text_body |-> st.need_text_body]

\* A mutant of MultipartState: in_alternative is not inherited.
MultipartStateOwnKind(st, msg, mime_type, boundary) ==
    [in_alternative |-> mime_type = "MultipartAlernative",
     mime_type |-> mime_type,
     mime_boundary |-> Some(boundary),
     parts |-> 0,
     html_parts |-> Len(msg.html_body),
     text_parts |-> Len(msg.text_body),
     need_html_body |-> st.need_html_body,
     need_text_body |-> st.need_text_body]

\* The state of a multipart level entered from st in message msg.
MultipartState(st, msg, mime_type, boundary) ==
    [in_alternative |-> st.in_alternative \/ mime_type = "MultipartAlernative",
     mime_type |-> mime_type,
     mime_boundary |-> Some(boundary),
     parts |-> 0,
     html_parts |-> Len(msg.html_body),
     text_parts |-> Len(msg.text_body),
     need_html_body |-> st.need_html_body,
     need_text_body |-> st.need_text_body]

\* A mutant of EmbeddedState: the boundary is not passed on.
EmbeddedStateNoBoundary(st) ==
    [mime_type |-> "Message",
     mime_boundary |-> None,
     in_alternative |-> FALSE,
     parts |-> 0, html_parts |-> 0, text_parts |-> 0,
     need_html_body |-> TRUE, need_text_body |-> TRUE]

\* The state of an embedded message entered from st: it takes st's boundary.
EmbeddedState(st) ==
    [mime_type |-> "Message",
     mime_boundary |-> st.mime_boundary,
     in_alternative |-> FALSE,
     parts |-> 0, html_parts |-> 0, text_parts |-> 0,
     need_html_body |-> TRUE, need_text_body |-> TRUE]

\* The decoding of a leaf and the recovery of one that decodes to nothing:
\* the outcomes [ok, pos, missing, bytes, recovered]; ok = FALSE is "break".
DecodeLeaf(is_binary, boundary, p, miss) ==
    LET Stop(m) == [ok |-> FALSE, pos |-> p, missing |-> m, bytes |-> Empty,
                    recovered |-> FALSE, delim |-> FALSE]
        Got(r, rec) == [ok |-> TRUE, pos |-> p + r.read, missing |-> r.missing,
                        bytes |-> r.res, recovered |-> rec, delim |-> r.delim]
        Firsts == IF is_binary THEN GetBytesToBoundary(p, miss, boundary)
                  ELSE DecodeEncoded(p, miss, boundary)
        Seconds(m) == IF ~is_binary THEN GetBytesToBoundary(p, m, boundary)
                      ELSE {[read |-> 0, res |-> Empty, missing |-> m, delim |-> FALSE]}
    IN UNION {
         IF first.read # 0 THEN {Got(first, FALSE)}
         ELSE IF p >= len \/ (is_binary /\ boundary = None) THEN {Stop(first.missing)}
         ELSE UNION {
                IF second.read = 0
                THEN IF IsSome(boundary)
                     THEN { IF third.read > 0 THEN Got(third, TRUE) ELSE Stop(third.missing) :
                              third \in GetBytesToBoundary(p, second.missing, None) }
                     ELSE {Stop(second.missing)}
                ELSE {Got(second, TRUE)}
                : second \in Seconds(first.missing) }
         : first \in Firsts }

\* A mutant of AfterRecovery: a recovered part keeps its classification.
AfterRecoveryKeepsKind(c, recovered) ==
    [mime_type |-> c.mime_type, is_inline |-> c.is_inline, is_text |-> c.is_text]

\* mime_type, is_inline and is_text of leaf c once it is decoded: a part that
\* had to be recovered is TextOther, not inline, text.
AfterRecovery(c, recovered) ==
    IF recovered
    THEN [mime_type |-> "TextOther", is_inline |-> FALSE, is_text |-> TRUE]
    ELSE [mime_type |-> c.mime_type, is_inline |-> c.is_inline, is_text |-> c.is_text]

\* A mutant of IsInline: multipart/related is as any other level.
IsInlineAlsoInRelated(is_inline, header, st, mime_type) ==
    /\ is_inline
    /\ ~IsAttachment(header)
    /\ \/ st.parts = 1
       \/ mime_type = "Inline"
       \/ header.content_type = None
       \/ ~HasName(Unwrap(header.content_type))

\* A mutant of IsInline: Content-Disposition is not consulted.
IsInlineWhateverDisposition(is_inline, header, st, mime_type) ==
    /\ is_inline
    /\ \/ st.parts = 1
       \/ /\ st.mime_type # "MultipartRelated"
          /\ \/ mime_type = "Inline"
             \/ header.content_type = None
             \/ ~HasName(Unwrap(header.content_type))

\* The refinement of is_inline.
IsInline(is_inline, header, st, mime_type) ==
    /\ is_inline
    /\ (header.disposition = None \/ ~IsAttachment(header))
    /\ \/ st.parts = 1
       \/ /\ st.mime_type # "MultipartRelated"
          /\ \/ mime_type = "Inline"
             \/ header.content_type = None
             \/ ~HasName(Unwrap(header.content_type))

\* A mutant of Placement: the need flags are cleared outside alternatives too.
PlacementClearsAnywhere(st, mime_type, is_inline) ==
    IF st.mime_type = "MultipartAlernative"
    THEN [state |-> st,
          add_to_html |-> mime_type = "TextHtml",
          add_to_text |-> mime_type = "TextPlain"]
    ELSE IF is_inline
    THEN LET clear == st.need_text_body \/ st.need_html_body
             st2 == [st EXCEPT
                       !.need_text_body = IF clear /\ mime_type = "TextHtml" THEN FALSE ELSE @,
                       !.need_html_body = IF clear /\ mime_type = "TextPlain" THEN FALSE ELSE @]
         IN [state |-> st2,
             add_to_html |-> st2.need_html_body,
             add_to_text |-> st2.need_text_body]
    ELSE [state |-> st, add_to_html |-> FALSE, add_to_text |-> FALSE]

\* A mutant of Placement: an inline part is added to html_body only.
PlacementInlineHtmlOnly(st, mime_type, is_inline) ==
    IF st.mime_type = "MultipartAlernative"
    THEN [state |-> st,
          add_to_html |-> mime_type = "TextHtml",
          add_to_text |-> mime_type = "TextPlain"]
    ELSE [state |-> st, add_to_html |-> is_inline /\ st.need_html_body,
          add_to_text |-> FALSE]

\* add_to_html and add_to_text, and the state with its need flags updated.
Placement(st, mime_type, is_inline) ==
    IF st.mime_type = "MultipartAlernative"
    THEN [state |-> st,
          add_to_html |-> mime_type = "TextHtml",
          add_to_text |-> mime_type = "TextPlain"]
    ELSE IF is_inline
    THEN LET clear == st.in_alternative /\ (st.need_text_body \/ st.need_html_body)
             st2 == [st EXCEPT
                       !.need_text_body = IF clear /\ mime_type = "TextHtml" THEN FALSE ELSE @,
                       !.need_html_body = IF clear /\ mime_type = "TextPlain" THEN FALSE ELSE @]
         IN [state |-> st2,
             add_to_html |-> st2.need_html_body,
             add_to_text |-> st2.need_text_body]
    ELSE [state |-> st, add_to_html |-> FALSE, add_to_text |-> FALSE]

\* std::mem::take of the scratch map when it is not empty
PartHeaders(mph) == IF ~HeadersIsEmpty(mph) THEN Some(mph) ELSE None

\* A mutant of InsertText: the original goes to attachments whatever the flags.
InsertTextToAttachments(msg, mph, bytes, mime_type, add_to_html, add_to_text) ==
    [msg EXCEPT !.attachments =
        Append(@, PartText(TextPart(PartHeaders(mph), ResultToString(bytes))))]

\* A mutant of InsertText: no converted copy is made for the other flavour.
InsertTextOriginalOnly(msg, mph, bytes, mime_type, add_to_html, add_to_text) ==
    LET text_part == TextPart(PartHeaders(mph), ResultToString(bytes))
        is_html == mime_type = "TextHtml"
    IN IF add_to_html /\ is_html
       THEN [msg EXCEPT !.html_body = Append(@, InlineText(text_part))]
       ELSE IF add_to_text /\ ~is_html
       THEN [msg EXCEPT !.text_body = Append(@, InlineText(text_part))]
       ELSE [msg EXCEPT !.attachments = Append(@, PartText(text_part))]

\* The insertion of a text leaf.
InsertText(msg, mph, bytes, mime_type, add_to_html, add_to_text) ==
    LET text_part == TextPart(PartHeaders(mph), ResultToString(bytes))
        is_html == mime_type = "TextHtml"
        m1 == IF add_to_html /\ ~is_html
              THEN [msg EXCEPT !.html_body =
                      Append(@, InlineText(TextPart(None, TextToHtml(text_part.contents))))]
              ELSE IF add_to_text /\ is_html
              THEN [msg EXCEPT !.text_body =
                      Append(@, InlineText(TextPart(None, HtmlToText(text_part.contents))))]
              ELSE msg
    IN IF add_to_html /\ is_html
       THEN [m1 EXCEPT !.html_body = Append(@, InlineText(text_part))]
       ELSE IF add_to_text /\ ~is_html
       THEN [m1 EXCEPT !.text_body = Append(@, InlineText(text_part))]
       ELSE [m1 EXCEPT !.attachments = Append(@, PartText(text_part))]

\* A mutant of InsertBinary: the index is taken after the part is pushed.
InsertBinaryIndexAfterPush(msg, mph, bytes, is_inline, add_to_html, add_to_text) ==
    LET binary_part == BinaryPart(PartHeaders(mph), ResultToBytes(bytes))
        m0 == [msg EXCEPT !.attachments =
                 Append(@, IF ~is_inline THEN PartBinary(binary_part)
                           ELSE PartInlineBinary(binary_part))]
        m1 == IF add_to_html
              THEN [m0 EXCEPT !.html_body = Append(@, InlineBinaryIndex(Len(m0.attachments)))]
              ELSE m0
    IN IF add_to_text
       THEN [m1 EXCEPT !.text_body = Append(@, InlineBinaryIndex(Len(m1.attachments)))]
       ELSE m1

\* The insertion of a binary leaf.
InsertBinary(msg, mph, bytes, is_inline, add_to_html, add_to_text) ==
    LET binary_part == BinaryPart(PartHeaders(mph), ResultToBytes(bytes))
        m1 == IF add_to_html
              THEN [msg EXCEPT !.html_body = Append(@, InlineBinaryIndex(Len(msg.attachments)))]
              ELSE msg
        m2 == IF add_to_text
              THEN [m1 EXCEPT !.text_body = Append(@, InlineBinaryIndex(Len(m1.attachments)))]
              ELSE m1
    IN [m2 EXCEPT !.attachments =
          Append(@, IF ~is_inline THEN PartBinary(binary_part)
                    ELSE PartInlineBinary(binary_part))]

\* A mutant of Converted: text entries are copied as they are.
ConvertedVerbatim(parts, to_html) == parts

\* One entry of the other flavour for each entry of parts.
Converted(parts, to_html) ==
    [i \in 1..Len(parts) |->
        IF parts[i].tag = "Text"
        THEN InlineText(TextPart(None, IF to_html THEN TextToHtml(parts[i].part.contents)
                                       ELSE HtmlToText(parts[i].part.contents)))
        ELSE InlineBinaryIndex(parts[i].index)]

\* A mutant of Synthesize: only the text flavour is synthesized.
SynthesizeTextOnly(st, msg) ==
    IF /\ st.mime_type = "MultipartAlernative" /\ st.need_html_body /\ st.need_text_body
       /\ st.text_parts = Len(msg.text_body)
       /\ st.html_parts # Len(msg.html_body)
    THEN [msg EXCEPT !.text_body = @ \o
            Converted(SubSeq(msg.html_body, st.html_parts + 1, Len(msg.html_body)), FALSE)]
    ELSE msg

\* The synthesis of the missing flavour when a multipart/alternative ends.
\* The slices start at the lengths saved in the state (SynthesisPanics says
\* when one starts past the end of its list).
Synthesize(st, msg) ==
    IF st.mime_type = "MultipartAlernative" /\ st.need_html_body /\ st.need_text_body
    THEN LET m1 == IF /\ st.text_parts = Len(msg.text_body)
                      /\ st.html_parts # Len(msg.html_body)
                   THEN [msg EXCEPT !.text_body = @ \o
                           Converted(SubSeq(msg.html_body, st.html_parts + 1,
                                            Len(msg.html_body)), FALSE)]
                   ELSE msg
         IN IF /\ st.html_parts = Len(m1.html_body)
               /\ st.text_parts # Len(m1.text_body)
            THEN [m1 EXCEPT !.html_body = @ \o
                    Converted(SubSeq(m1.text_body, st.text_parts + 1,
                                     Len(m1.text_body)), TRUE)]
            ELSE m1
    ELSE msg

\* A slice of the synthesis starts past the end of its list: the program panics.
SynthesisPanics(st, msg) ==
    /\ st.mime_type = "MultipartAlernative" /\ st.need_html_body /\ st.need_text_body
    /\ \/ st.text_parts = Len(msg.text_body) /\ st.html_parts > Len(msg.html_body)
       \/ st.html_parts = Len(msg.html_body) /\ st.text_parts > Len(msg.text_body)

-----------------------------------------------------------------------------
(* The outer loop *)

\* What an iteration has after parse_headers read block b: the header map
\* parsed into, the message, the scratch map and the state with parts += 1.
AfterHeaders(b) ==
    LET header == AddFields(HeaderTarget(state, message, mime_part_header), b)
        cls == GetMimeType(header.content_type, state.mime_type)
    IN [header |-> header,
        message |-> IF state.mime_type = "Message"
                    THEN [message EXCEPT !.headers = header] ELSE message,
        mph |-> IF state.mime_type = "Message" THEN mime_part_header ELSE header,
        state |-> [state EXCEPT !.parts = @ + 1],
        is_multipart |-> cls[1], is_inline |-> cls[2], is_text |-> cls[3],
        mime_type |-> cls[4]]

\* A mutant of HeadersEnd: the loop goes on when no field was parsed.
HeadersEndContinue ==
    /\ pc = "outer"
    /\ \E hp \in ParseHeaders(pos) :
         /\ ~hp.ok
         /\ pos' = hp.pos
    /\ at_delimiter' = FALSE
    /\ pc' = "outer"
    /\ it' = NoLocals("headers_end")
    /\ UNCHANGED <<len, missing, message, message_stack, state, state_stack,
                   mime_part_header, result>>

\* parse_headers parsed no field: break.
HeadersEnd ==
    /\ pc = "outer"
    /\ \E hp \in ParseHeaders(pos) :
         /\ ~hp.ok
         /\ pos' = hp.pos
    /\ at_delimiter' = FALSE
    /\ pc' = "post"
    /\ it' = NoLocals("headers_end")
    /\ UNCHANGED <<len, missing, message, message_stack, state, state_stack,
                   mime_part_header, result>>

\* A multipart with a boundary attribute whose delimiter is found: descend.
MultipartDescent ==
    /\ pc = "outer"
    /\ \E hp \in ParseHeaders(pos) :
         /\ hp.ok
         /\ LET a == AfterHeaders(hp.block) IN
            /\ a.is_multipart
            /\ IsSome(a.header.content_type)
            /\ IsSome(Unwrap(a.header.content_type).boundary)
            /\ \E sk \in SeekNextPart(hp.pos, missing,
                                      Unwrap(Unwrap(a.header.content_type).boundary)) :
                 /\ sk.found
                 /\ state' = MultipartState(a.state, a.message, a.mime_type,
                                Unwrap(Unwrap(a.header.content_type).boundary))
                 /\ state_stack' = Append(state_stack, a.state)
                 /\ message' = a.message
                 /\ pos' = SkipCrlf(sk.pos)
                 /\ missing' = sk.missing
    /\ at_delimiter' = FALSE
    /\ mime_part_header' = NewHeaders
    /\ pc' = "outer"
    /\ it' = NoLocals("multipart")
    /\ UNCHANGED <<len, message_stack, result>>

\* A message/rfc822 part, or a part without Content-Type in a digest: descend.
MessageDescent ==
    /\ pc = "outer"
    /\ \E hp \in ParseHeaders(pos) :
         /\ hp.ok
         /\ LET a == AfterHeaders(hp.block) IN
            /\ ~a.is_multipart
            /\ a.mime_type = "Message"
            /\ state' = EmbeddedState(a.state)
            /\ state_stack' = Append(state_stack, [a.state EXCEPT !.mime_boundary = None])
            /\ message_stack' = Append(message_stack, a.message)
            /\ message' = NewMessage(hp.pos)
            /\ pos' = SkipCrlf(hp.pos)
    /\ at_delimiter' = FALSE
    /\ mime_part_header' = NewHeaders
    /\ pc' = "outer"
    /\ it' = NoLocals("message")
    /\ UNCHANGED <<len, missing, result>>

\* A mutant of LeafEntries: a multipart whose delimiter is not found keeps
\* its classification.
LeafEntriesNoDemotion(a, p) ==
    IF a.is_multipart
    THEN IF IsSome(a.header.content_type) /\ IsSome(Unwrap(a.header.content_type).boundary)
         THEN { [mime_type |-> a.mime_type, is_inline |-> a.is_inline, is_text |-> a.is_text,
                 missing |-> sk.missing] :
                  sk \in { k \in SeekNextPart(p, missing,
                                  Unwrap(Unwrap(a.header.content_type).boundary)) :
                           ~k.found } }
         ELSE { [mime_type |-> a.mime_type, is_inline |-> a.is_inline,
                 is_text |-> a.is_text, missing |-> missing] }
    ELSE IF a.mime_type = "Message"
    THEN {}
    ELSE { [mime_type |-> a.mime_type, is_inline |-> a.is_inline,
            is_text |-> a.is_text, missing |-> missing] }

\* The parts handled as a leaf after headers a: [mime_type, is_inline,
\* is_text, missing].  A multipart whose delimiter is not found is demoted.
LeafEntries(a, p) ==
    IF a.is_multipart
    THEN IF IsSome(a.header.content_type) /\ IsSome(Unwrap(a.header.content_type).boundary)
         THEN { [mime_type |-> "TextOther", is_inline |-> a.is_inline, is_text |-> TRUE,
                 missing |-> sk.missing] :
                  sk \in { k \in SeekNextPart(p, missing,
                                  Unwrap(Unwrap(a.header.content_type).boundary)) :
                           ~k.found } }
         ELSE { [mime_type |-> a.mime_type, is_inline |-> a.is_inline,
                 is_text |-> a.is_text, missing |-> missing] }
    ELSE IF a.mime_type = "Message"
    THEN {}
    ELSE { [mime_type |-> a.mime_type, is_inline |-> a.is_inline,
            is_text |-> a.is_text, missing |-> missing] }

\* A leaf is decoded (or recovered) and inserted.
Leaf ==
    /\ pc = "outer"
    /\ \E hp \in ParseHeaders(pos) :
         /\ hp.ok
         /\ LET a == AfterHeaders(hp.block) IN
            \E c \in LeafEntries(a, hp.pos) :
            \E d \in DecodeLeaf(IsBinary(a.header), a.state.mime_boundary,
                                SkipCrlf(hp.pos), c.missing) :
              /\ d.ok
              /\ LET k == AfterRecovery(c, d.recovered)
                     mime_type == k.mime_type
                     is_text == k.is_text
                     is_inline == IsInline(k.is_inline, a.header, a.state, mime_type)
                     pl == Placement(a.state, mime_type, is_inline)
                 IN /\ message' =
                         IF is_text
                         THEN InsertText(a.message, a.mph, d.bytes, mime_type,
                                         pl.add_to_html, pl.add_to_text)
                         ELSE InsertBinary(a.message, a.mph, d.bytes, is_inline,
                                           pl.add_to_html, pl.add_to_text)
                    /\ state' = pl.state
                    /\ it' = [step |-> "leaf", header |-> a.header,
                              mime_type |-> mime_type, is_inline |-> is_inline,
                              is_text |-> is_text, add_to_html |-> pl.add_to_html,
                              add_to_text |-> pl.add_to_text, recovered |-> d.recovered]
                    /\ pos' = d.pos
                    /\ missing' = d.missing
                    /\ at_delimiter' = d.delim
                    /\ pc' = IF IsSome(pl.state.mime_boundary) THEN "inner"
                             ELSE IF d.pos >= len THEN "post" ELSE "outer"
    /\ mime_part_header' = NewHeaders
    /\ UNCHANGED <<len, message_stack, state_stack, result>>

\* A leaf decodes to nothing and cannot be recovered: break.
LeafBreak ==
    /\ pc = "outer"
    /\ \E hp \in ParseHeaders(pos) :
         /\ hp.ok
         /\ LET a == AfterHeaders(hp.block) IN
            \E c \in LeafEntries(a, hp.pos) :
            \E d \in DecodeLeaf(IsBinary(a.header), a.state.mime_boundary,
                                SkipCrlf(hp.pos), c.missing) :
              /\ ~d.ok
              /\ message' = a.message
              /\ mime_part_header' = a.mph
              /\ state' = a.state
              /\ it' = [NoLocals("leaf_break") EXCEPT !.header = a.header]
              /\ pos' = d.pos
              /\ missing' = d.missing
    /\ at_delimiter' = FALSE
    /\ pc' = "post"
    /\ UNCHANGED <<len, message_stack, state_stack, result>>

-----------------------------------------------------------------------------
(* The inner loop: one iteration *)

\* A mutant of RestoreParent: the closed message is not pushed to the
\* attachments of its parent.
RestoreParentDropsMessage(st, sstack, msg, mstack) ==
    IF st.mime_type = "Message"
    THEN IF mstack # << >> /\ sstack # << >>
         THEN [ok |-> TRUE, closed |-> TRUE,
               message |-> Last(mstack),
               message_stack |-> Front(mstack),
               state |-> [Last(sstack) EXCEPT !.mime_boundary = st.mime_boundary],
               state_stack |-> Front(sstack)]
         ELSE [ok |-> FALSE, closed |-> FALSE,
               message |-> msg,
               message_stack |-> IF mstack # << >> THEN Front(mstack) ELSE mstack,
               state |-> st,
               state_stack |-> IF sstack # << >> THEN Front(sstack) ELSE sstack]
    ELSE [ok |-> TRUE, closed |-> FALSE, message |-> msg, message_stack |-> mstack,
          state |-> st, state_stack |-> sstack]

\* The head of 'inner: when the level is an embedded message, that message is
\* closed: both stacks are popped (each pop happens, whatever the other
\* gives), the message goes to the attachments of its parent and the parent
\* state gets the boundary back.  ok = FALSE: a stack was empty (break 'outer).
RestoreParent(st, sstack, msg, mstack) ==
    IF st.mime_type = "Message"
    THEN IF mstack # << >> /\ sstack # << >>
         THEN [ok |-> TRUE, closed |-> TRUE,
               message |-> [Last(mstack) EXCEPT !.attachments = Append(@, PartMessage(msg))],
               message_stack |-> Front(mstack),
               state |-> [Last(sstack) EXCEPT !.mime_boundary = st.mime_boundary],
               state_stack |-> Front(sstack)]
         ELSE [ok |-> FALSE, closed |-> FALSE,
               message |-> msg,
               message_stack |-> IF mstack # << >> THEN Front(mstack) ELSE mstack,
               state |-> st,
               state_stack |-> IF sstack # << >> THEN Front(sstack) ELSE sstack]
    ELSE [ok |-> TRUE, closed |-> FALSE, message |-> msg, message_stack |-> mstack,
          state |-> st, state_stack |-> sstack]

\* A mutant of PopState: 'inner goes on at a state without boundary too.
PopStateGoesOn(st, sstack, p, miss) ==
    IF sstack = << >>
    THEN {[state |-> st, state_stack |-> sstack, go_on |-> FALSE, pos |-> p,
           missing |-> miss]}
    ELSE IF Last(sstack).mime_boundary = None
    THEN {[state |-> Last(sstack), state_stack |-> Front(sstack), go_on |-> TRUE,
           pos |-> p, missing |-> miss]}
    ELSE {[state |-> Last(sstack), state_stack |-> Front(sstack), go_on |-> sk.found,
           pos |-> sk.pos, missing |-> sk.missing] :
            sk \in SeekNextPart(p, miss, Unwrap(Last(sstack).mime_boundary))}

\* The state popped when a multipart ends, and whether 'inner goes on:
\* it does iff a state was popped, it has a boundary and the boundary is found.
PopState(st, sstack, p, miss) ==
    IF sstack = << >>
    THEN {[state |-> st, state_stack |-> sstack, go_on |-> FALSE, pos |-> p,
           missing |-> miss]}
    ELSE IF Last(sstack).mime_boundary = None
    THEN {[state |-> Last(sstack), state_stack |-> Front(sstack), go_on |-> FALSE,
           pos |-> p, missing |-> miss]}
    ELSE {[state |-> Last(sstack), state_stack |-> Front(sstack), go_on |-> sk.found,
           pos |-> sk.pos, missing |-> sk.missing] :
            sk \in SeekNextPart(p, miss, Unwrap(Last(sstack).mime_boundary))}

Unwind ==
    /\ pc = "inner"
    /\ LET r == RestoreParent(state, state_stack, message, message_stack) IN
       IF ~r.ok
       THEN /\ pc' = "post"
            /\ it' = NoLocals("underflow")
            /\ message' = r.message
            /\ message_stack' = r.message_stack
            /\ state' = r.state
            /\ state_stack' = r.state_stack
            /\ UNCHANGED <<pos, missing, at_delimiter>>
       ELSE \E me \in SkipMultipartEnd(pos, at_delimiter) :
            IF me.end
            THEN IF SynthesisPanics(r.state, r.message)
                 THEN /\ pc' = "panic"
                      /\ it' = NoLocals("panic")
                      /\ message' = r.message
                      /\ message_stack' = r.message_stack
                      /\ state' = r.state
                      /\ state_stack' = r.state_stack
                      /\ pos' = me.pos
                      /\ at_delimiter' = FALSE
                      /\ UNCHANGED missing
                 ELSE \E ps \in PopState(r.state, r.state_stack, me.pos, missing) :
                      /\ message' = Synthesize(r.state, r.message)
                      /\ message_stack' = r.message_stack
                      /\ state' = ps.state
                      /\ state_stack' = ps.state_stack
                      /\ pos' = ps.pos
                      /\ missing' = ps.missing
                      /\ at_delimiter' = ps.go_on
                      /\ pc' = IF ps.go_on THEN "inner" ELSE "post"
                      /\ it' = NoLocals(IF r.closed THEN "end_closed" ELSE "end")
            ELSE /\ message' = r.message
                 /\ message_stack' = r.message_stack
                 /\ state' = r.state
                 /\ state_stack' = r.state_stack
                 /\ pos' = SkipCrlf(me.pos)
                 /\ at_delimiter' = FALSE
                 /\ UNCHANGED missing
                 /\ pc' = "outer"
                 /\ it' = NoLocals(IF r.closed THEN "next_closed" ELSE "next")
    /\ UNCHANGED <<len, mime_part_header, result>>

-----------------------------------------------------------------------------
(* After the outer loop *)

\* A mutant of Attach: the message stack is not unwound.
AttachNothing(msg, mstack) == msg

\* while let Some(prev_message) = message_stack.pop() { ... }
RECURSIVE Attach(_, _)
Attach(msg, mstack) ==
    IF mstack = << >>
    THEN msg
    ELSE Attach(IF ~MessageIsEmpty(msg)
                THEN [Last(mstack) EXCEPT !.attachments = Append(@, PartMessage(msg))]
                ELSE Last(mstack),
                Front(mstack))

\* Some(message) iff the message is not empty
Returned(msg) == IF ~MessageIsEmpty(msg) THEN Some(msg) ELSE None

Return ==
    /\ pc = "post"
    /\ message' = Attach(message, message_stack)
    /\ message_stack' = << >>
    /\ result' = Returned(Attach(message, message_stack))
    /\ pc' = "done"
    /\ UNCHANGED <<len, pos, missing, at_delimiter, state, state_stack,
                   mime_part_header, it>>

Next ==
    \/ HeadersEnd
    \/ MultipartDescent
    \/ MessageDescent
    \/ Leaf
    \/ LeafBreak
    \/ Unwind
    \/ Return

Spec == Init /\ [][Next]_vars

\* The loops are sequential code: a step that can be taken is taken.
FairSpec == Spec /\ WF_vars(Next)

-----------------------------------------------------------------------------
(* The messages of a state *)

Range(s) == {s[i] : i \in DOMAIN s}

\* m and the messages embedded in it, at any depth
RECURSIVE SubMessages(_)
SubMessages(m) ==
    {m} \cup UNION { SubMessages(a.message) :
                       a \in {x \in Range(m.attachments) : x.tag = "Message"} }

\* every message the parser holds: the current one, the stacked ones, the
\* returned one, and the messages embedded in them
HeldMessages ==
    UNION { SubMessages(m) :
              m \in {message} \cup Range(message_stack) \cup Range(result) }

Bodies(m) == Range(m.html_body) \cup Range(m.text_body)

\* the bottom of the stack of states: the state of the root level
RootState == IF state_stack = << >> THEN state ELSE state_stack[1]

-----------------------------------------------------------------------------
(* C1 *)

\* C1: in the returned message and in every message embedded in it at any
\* depth (and in every message held while parsing), each
\* InlinePart::InlineBinary(i) of html_body or text_body has
\* i < len(attachments) of that same message.
IndexInRange(m) ==
    \A part \in Bodies(m) :
        part.tag = "InlineBinary" => part.index < Len(m.attachments)

C1_InlineBinaryIndexValid == \A m \in HeldMessages : IndexInRange(m)

\* a returned message with an embedded message that holds an InlineBinary index
C1_Witness ==
    /\ pc = "done"
    /\ IsSome(result)
    /\ \E m \in SubMessages(Unwrap(result)) :
         /\ m.mid # 0
         /\ \E part \in Range(m.html_body) : part.tag = "InlineBinary"

-----------------------------------------------------------------------------
(* C2 *)

\* C2: parse returns a message iff the first header block yielded a field
\* (the root level counted a part), that is iff the root message has headers;
\* what it returns is the root message with every message still open attached,
\* and nothing on empty input.
C2_ReturnsRootIffHeaders ==
    pc = "done" =>
        /\ message.mid = 0
        /\ message_stack = << >>
        /\ IsSome(result) <=> RootState.parts >= 1
        /\ IsSome(result) <=> ~HeadersIsEmpty(message.headers)
        /\ IsSome(result) => Unwrap(result) = message
        /\ len = 0 => result = None

\* the loop ended inside an embedded message, and the root is returned
C2_Witness ==
    /\ pc = "done"
    /\ IsSome(result)
    /\ state.mime_type = "Message"
    /\ state_stack # << >>
    /\ \E a \in Range(Unwrap(result).attachments) : a.tag = "Message"

-----------------------------------------------------------------------------
(* C3 *)

\* What a step of the loops does to the cursor and the stack of states.
StepProgress ==
    /\ pos' >= pos
    /\ (pc = "outer" /\ pc' # "post") => pos' > pos
    /\ (pc = "inner" /\ pc' = "inner") =>
          /\ pos' > pos
          /\ Len(state_stack') < Len(state_stack)

\* C3: parse terminates on every input: the cursor never moves back, an
\* iteration of the outer loop that does not leave it reads a header block,
\* an iteration of the unwind loop that is followed by another pops a state
\* and moves the cursor past a delimiter; so parse returns.
C3_Terminates == [][StepProgress]_vars /\ <>(pc = "done")

\* the unwind loop popped a state, found the delimiter of the level it
\* returned to, and runs again
C3_Witness ==
    /\ pc = "inner"
    /\ it.step \in {"end", "end_closed"}
    /\ pos > 0

-----------------------------------------------------------------------------
(* C4 *)

\* This step is the insertion of a leaf into the current message.
LeafStep == pc = "outer" /\ it'.step = "leaf"

\* The leaf of this step went to attachments only.
ToAttachmentsOnly ==
    /\ message'.html_body = message.html_body
    /\ message'.text_body = message.text_body
    /\ Len(message'.attachments) = Len(message.attachments) + 1
    /\ SubSeq(message'.attachments, 1, Len(message.attachments)) = message.attachments
    /\ Last(message'.attachments).tag \in {"Text", "Binary"}

\* C4 as stated: a leaf with Content-Disposition: attachment goes to the
\* attachments of its message and to neither body list, whatever its parent.
C4_AttachmentNeverInBody ==
    [][LeafStep /\ IsAttachment(it'.header) => ToAttachmentsOnly]_vars

\* C4 amended: a leaf with Content-Disposition: attachment whose parent level
\* is not multipart/alternative goes to the attachments of its message and to
\* neither body list.
C4_AttachmentOutsideAlternative ==
    [][LeafStep /\ IsAttachment(it'.header) /\ state.mime_type # "MultipartAlernative"
         => ToAttachmentsOnly]_vars

\* a leaf with that disposition was inserted at a level that is no alternative
C4_Witness ==
    /\ it.step = "leaf"
    /\ IsAttachment(it.header)
    /\ state.mime_type = "MultipartMixed"
    /\ message.attachments # << >>
    /\ Last(message.attachments).tag = "Text"

-----------------------------------------------------------------------------
(* C5 *)

\* The level the unwind loop is at once an embedded message is closed, and
\* the message it belongs to.
UnwindLevel == RestoreParent(state, state_stack, message, message_stack)

\* This step leaves a multipart/alternative at its terminal delimiter.
AlternativeEnds ==
    /\ pc = "inner"
    /\ it'.step \in {"end", "end_closed"}
    /\ UnwindLevel.state.mime_type = "MultipartAlernative"

\* What the block that ends has added to each list, after this step.
AddedHtml == Len(message'.html_body) - UnwindLevel.state.html_parts
AddedText == Len(message'.text_body) - UnwindLevel.state.text_parts

\* C5 as stated: when a multipart/alternative ends, it has added as many
\* entries to html_body as to text_body (none to both included).
C5_AlternativeCountsEqual == [][AlternativeEnds => AddedHtml = AddedText]_vars

\* C5 amended: when a multipart/alternative ends at its terminal delimiter
\* with both need flags set and at most one of the two lists has grown since
\* the block began, then after the synthesis the block has added as many
\* entries to html_body as to text_body.
C5_OneFlavourCountsEqual ==
    [][AlternativeEnds
         /\ UnwindLevel.state.need_html_body /\ UnwindLevel.state.need_text_body
         /\ \/ Len(UnwindLevel.message.html_body) = UnwindLevel.state.html_parts
            \/ Len(UnwindLevel.message.text_body) = UnwindLevel.state.text_parts
         => AddedHtml = AddedText]_vars

\* the root is a multipart/alternative that has ended, and html_body got its
\* only entry by synthesis
C5_Witness ==
    /\ it.step = "end"
    /\ state_stack = << >>
    /\ message.mid = 0
    /\ message.headers.content_type # None
    /\ Unwrap(message.headers.content_type).subtype = Some("alternative")
    /\ Len(message.text_body) = 1
    /\ Len(message.html_body) = 1
    /\ message.html_body[1].tag = "Text"
    /\ message.html_body[1].part.contents.conv = <<"text_to_html">>

-----------------------------------------------------------------------------
(* C6 *)

\* parse has returned from an input that is one header block without MIME
\* fields and a body.
PlainTextParsed ==
    /\ pc = "done"
    /\ it.step = "leaf"
    /\ state_stack = << >>
    /\ state.parts = 1
    /\ message.headers = PlainBlock

BodyText == ResultToString(Borrowed(1, len))

\* C6 as stated: the message has the body as its one text_body entry, an
\* empty html_body and no attachments.
C6_PlainTextOnly ==
    PlainTextParsed =>
        /\ result = Some(message)
        /\ message.text_body = << InlineText(TextPart(None, BodyText)) >>
        /\ message.html_body = << >>
        /\ message.attachments = << >>

\* C6 amended: the message has the body as its one text_body entry, one
\* html_body entry without headers holding text_to_html of the body, and no
\* attachments.
C6_PlainTextAndHtml ==
    PlainTextParsed =>
        /\ result = Some(message)
        /\ message.text_body = << InlineText(TextPart(None, BodyText)) >>
        /\ message.html_body = << InlineText(TextPart(None, TextToHtml(BodyText))) >>
        /\ message.attachments = << >>

C6_Witness == PlainTextParsed /\ IsSome(result) /\ len >= 2

-----------------------------------------------------------------------------
(* C7 *)

\* C7: at a level with in_alternative unset, an inline binary leaf is
\* appended to attachments as InlineBinary and its index there (the length of
\* attachments before) to html_body and to text_body; a binary leaf that is
\* not inline is appended as Binary and to neither list.
C7_BinaryLeafPlacement ==
    [][LeafStep /\ ~it'.is_text /\ ~state.in_alternative =>
         LET n == Len(message.attachments) IN
         /\ Len(message'.attachments) = n + 1
         /\ SubSeq(message'.attachments, 1, n) = message.attachments
         /\ IF it'.is_inline
            THEN /\ Last(message'.attachments).tag = "InlineBinary"
                 /\ message'.html_body = Append(message.html_body, InlineBinaryIndex(n))
                 /\ message'.text_body = Append(message.text_body, InlineBinaryIndex(n))
            ELSE /\ Last(message'.attachments).tag = "Binary"
                 /\ message'.html_body = message.html_body
                 /\ message'.text_body = message.text_body]_vars

\* an inline binary leaf was inserted after another attachment
C7_Witness ==
    /\ it.step = "leaf"
    /\ ~it.is_text
    /\ it.is_inline
    /\ ~state.in_alternative
    /\ Len(message.attachments) >= 2
    /\ Last(message.attachments).tag = "InlineBinary"
    /\ Last(message.html_body) = InlineBinaryIndex(Len(message.attachments) - 1)
    /\ Last(message.text_body) = InlineBinaryIndex(Len(message.attachments) - 1)

-----------------------------------------------------------------------------
(* C8 *)

\* The messages of the tree under construction: the current message, the
\* stacked ones and those embedded in them; once parse has returned, the
\* messages of what it returned.
Tree ==
    IF pc = "done"
    THEN UNION { SubMessages(m) : m \in Range(result) }
    ELSE UNION { SubMessages(m) : m \in {message} \cup Range(message_stack) }

\* An entry of a list of a message, told by its place; an embedded message
\* stands by its mid, its own entries being told apart.
Key(e) == IF e.tag = "Message" THEN [tag |-> "Message", mid |-> e.message.mid] ELSE e

Stored ==
    UNION { {<<m.mid, "attachments", i, Key(m.attachments[i])>> : i \in DOMAIN m.attachments}
            \cup {<<m.mid, "html_body", i, m.html_body[i]>> : i \in DOMAIN m.html_body}
            \cup {<<m.mid, "text_body", i, m.text_body[i]>> : i \in DOMAIN m.text_body}
            : m \in Tree }

\* <<holder, index, embedded>> for each MessagePart::Message of the tree
EmbeddedEntries ==
    { e \in Stored : e[2] = "attachments" /\ e[4].tag = "Message" }

\* the stacked messages and the current one: each is embedded in the one before
OpenChain == Append(message_stack, message)

\* A message descent puts the current message on the stack and opens a
\* message with a new mid.
DescentOpens ==
    (pc = "outer" /\ it'.step = "message") =>
        /\ Front(message_stack') = message_stack
        /\ Last(message_stack').mid = message.mid
        /\ message'.mid \notin {m.mid : m \in Tree}
        /\ message'.attachments = << >>

\* The unwind loop closes the embedded message it finds current: the message
\* goes, as it is, to the end of the attachments of the top of the stack.
UnwindAttaches ==
    (pc = "inner" /\ state.mime_type = "Message"
        /\ message_stack # << >> /\ state_stack # << >>
        /\ ~HeadersIsEmpty(message.headers)) =>
        /\ message_stack' = Front(message_stack)
        /\ message'.mid = Last(message_stack).mid
        /\ message'.attachments =
               Append(Last(message_stack).attachments, PartMessage(message))

\* After the loop each message still open, if it has headers, is in the
\* attachments of the one before it on the stack, and there only, once.
PostLoopAttaches ==
    (pc = "post" /\ pc' = "done") =>
        \A i \in 1..Len(message_stack) :
            ~HeadersIsEmpty(OpenChain[i + 1].headers) =>
                LET at == { e \in EmbeddedEntries' : e[4].mid = OpenChain[i + 1].mid } IN
                /\ Cardinality(at) = 1
                /\ \A e \in at :
                     /\ e[1] = OpenChain[i].mid
                     /\ \E m \in Tree' :
                          /\ m.mid = e[1]
                          /\ LET was == OpenChain[i + 1]
                                 got == m.attachments[e[3]].message
                             IN /\ got.headers = was.headers
                                /\ got.html_body = was.html_body
                                /\ got.text_body = was.text_body
                                /\ SubSeq(got.attachments, 1, Len(was.attachments))
                                       = was.attachments

\* No message is embedded twice.
EmbeddedOnce ==
    \A e1, e2 \in EmbeddedEntries : e1[4].mid = e2[4].mid => e1 = e2

\* C8: a message descent stacks the current message; the embedded message is
\* attached as MessagePart::Message to that message when the unwind loop
\* closes it, and after the loop when it is still open and has headers; it is
\* embedded once; and no step removes or changes an entry of a list of a
\* message of the tree.
C8_EmbeddedMessageAttachedOnce ==
    [][/\ DescentOpens
       /\ UnwindAttaches
       /\ PostLoopAttaches
       /\ EmbeddedOnce'
       /\ Stored \subseteq Stored']_vars

\* returned: a root with an embedded message closed in the unwind loop and
\* another one attached after the loop
C8_Witness ==
    /\ pc = "done"
    /\ IsSome(result)
    /\ state.mime_type = "Message"
    /\ state_stack # << >>
    /\ Cardinality({ e \in EmbeddedEntries : e[1] = 0 }) = 2

-----------------------------------------------------------------------------
(* C9 *)

\* the payload of the leaf of this step, as read raw
RawPayload == ResultToString(Borrowed(pos + 1, pos'))

\* A recovered leaf: there was input left; the raw payload, up to the
\* boundary or (the boundary not found, or the part raw) to the end of the
\* input, is a MessagePart::Text in attachments and in neither body list.
RecoveredLeaf ==
    (LeafStep /\ it'.recovered) =>
        /\ pos + 1 < len
        /\ ToAttachmentsOnly
        /\ ~it'.is_inline
        /\ Last(message'.attachments).tag = "Text"
        /\ Last(message'.attachments).part.contents = RawPayload
        /\ IF IsBinary(it'.header)
           THEN IsSome(state.mime_boundary) /\ pos' = len /\ ~at_delimiter'
           ELSE \/ IsSome(state.mime_boundary) /\ at_delimiter' /\ pos' = pos + 2
                \/ /\ pos' = len /\ ~at_delimiter'
                   /\ state.mime_boundary # None => Unwrap(state.mime_boundary) \in missing'

\* A leaf that was not recovered holds what its decoder gave.
DecodedLeaf ==
    (LeafStep /\ ~it'.recovered /\ it'.is_text /\ ~IsBinary(it'.header)) =>
        \E part \in Range(message'.attachments) \cup Bodies(message') :
            /\ part.tag = "Text"
            /\ part.part.contents = ResultToString(Owned(pos + 1, pos'))

\* A leaf of which nothing can be read ends the loop: no list changes, and
\* parse returns every entry there was.
BreakKeepsAll ==
    /\ (pc = "outer" /\ it'.step = "leaf_break") =>
           /\ pc' = "post"
           /\ Stored' = Stored
           /\ message_stack' = message_stack
    /\ (pc = "post" /\ it.step = "leaf_break") =>
           /\ pc' = "done"
           /\ IsSome(result')
           /\ Stored \subseteq Stored'

\* C9: a leaf whose decoding reads nothing while input is left is read raw
\* up to the boundary, then raw to the end of the input; what a retry reads
\* is stored as MessagePart::Text in attachments and in neither body list,
\* also under multipart/alternative; when nothing can be read the loop ends,
\* the part is not added and all that was parsed is returned.
C9_Recovery == [][RecoveredLeaf /\ DecodedLeaf /\ BreakKeepsAll]_vars

\* a base64 part directly under multipart/alternative, recovered raw to the
\* end of the input after the boundary was not found
C9_Witness ==
    /\ it.step = "leaf"
    /\ it.recovered
    /\ it.header.encoding = Some("base64")
    /\ state.mime_type = "MultipartAlernative"
    /\ pos = len
    /\ message.html_body = << >>
    /\ message.text_body = << >>
    /\ Last(message.attachments).tag = "Text"
    /\ Last(message.attachments).part.contents.src = "data"

-----------------------------------------------------------------------------
(* get_mime_type on its own *)

MimeTypeNames == {"multipart", "text", "image", "audio", "video", "message", "application"}

MimeSubtypeNames ==
    {"mixed", "alternative", "related", "digest", "parallel", "plain", "html",
     "csv", "png", "rfc822", "partial", "pdf"}

\* Content-Type absent, or present with any type and any or no subtype
ContentTypeInputs ==
    {None} \cup { Some(ContentType(t, st, None, FALSE)) :
                    t \in MimeTypeNames,
                    st \in {None} \cup {Some(x) : x \in MimeSubtypeNames} }

\* A header with Content-Type ct is about to be classified at a level of kind
\* parent.
InitMime ==
    /\ len = 0
    /\ pos = 0
    /\ missing = {}
    /\ at_delimiter = FALSE
    /\ message = NewMessage(0)
    /\ message_stack = << >>
    /\ \E parent \in MimeTypes : state = [NewState EXCEPT !.mime_type = parent]
    /\ state_stack = << >>
    /\ mime_part_header = NewHeaders
    /\ \E ct \in ContentTypeInputs :
         it = [NoLocals("start") EXCEPT !.header.content_type = ct]
    /\ pc = "classify"
    /\ result = None

\* let (is_multipart, is_inline, is_text, mime_type) =
\*     get_mime_type(header.get_content_type(), &state.mime_type);
Classify ==
    /\ pc = "classify"
    /\ LET r == GetMimeType(it.header.content_type, state.mime_type) IN
       /\ result' = Some(r)
       /\ it' = [it EXCEPT !.step = "classified", !.is_inline = r[2],
                           !.is_text = r[3], !.mime_type = r[4]]
    /\ pc' = "classified"
    /\ UNCHANGED <<len, pos, missing, at_delimiter, message, message_stack, state,
                   state_stack, mime_part_header>>

NextMime == Classify

SpecMime == InitMime /\ [][NextMime]_vars

-----------------------------------------------------------------------------
(* C10 *)

\* The classification table, row by row, the first row that matches:
\* <<multipart, inline?, text?, kind>>.
ClassificationTable(ct, parent) ==
    LET Is(t, st) == ct # None /\ Unwrap(ct).type = t /\ Unwrap(ct).subtype = Some(st)
        IsType(t) == ct # None /\ Unwrap(ct).type = t
    IN CASE Is("multipart", "mixed") -> <<TRUE, FALSE, FALSE, "MultipartMixed">>
         [] Is("multipart", "alternative") -> <<TRUE, FALSE, FALSE, "MultipartAlernative">>
         [] Is("multipart", "related") -> <<TRUE, FALSE, FALSE, "MultipartRelated">>
         [] Is("multipart", "digest") -> <<TRUE, FALSE, FALSE, "MultipartDigest">>
         [] IsType("multipart") -> <<TRUE, FALSE, FALSE, "Other">>
         [] Is("text", "plain") -> <<FALSE, TRUE, TRUE, "TextPlain">>
         [] Is("text", "html") -> <<FALSE, TRUE, TRUE, "TextHtml">>
         [] IsType("text") -> <<FALSE, FALSE, TRUE, "TextOther">>
         [] IsType("image") \/ IsType("audio") \/ IsType("video") ->
                <<FALSE, TRUE, FALSE, "Inline">>
         [] Is("message", "rfc822") -> <<FALSE, FALSE, FALSE, "Message">>
         [] ct # None -> <<FALSE, FALSE, FALSE, "Other">>
         [] ct = None /\ parent = "MultipartDigest" -> <<FALSE, FALSE, FALSE, "Message">>
         [] OTHER -> <<FALSE, TRUE, TRUE, "TextPlain">>

\* C10: get_mime_type gives, for every Content-Type (absent included) and
\* every kind of parent, the tuple of the classification table; without
\* Content-Type that is Message under multipart/digest and TextPlain under
\* any other parent, and message/* other than rfc822 is Other.
C10_MimeTypeTable ==
    pc = "classified" =>
        /\ result = Some(ClassificationTable(it.header.content_type, state.mime_type))
        /\ it.header.content_type = None =>
             Unwrap(result) = IF state.mime_type = "MultipartDigest"
                              THEN <<FALSE, FALSE, FALSE, "Message">>
                              ELSE <<FALSE, TRUE, TRUE, "TextPlain">>
        /\ (/\ it.header.content_type # None
            /\ Unwrap(it.header.content_type).type = "message"
            /\ Unwrap(it.header.content_type).subtype # Some("rfc822")) =>
             Unwrap(result) = <<FALSE, FALSE, FALSE, "Other">>

\* a part without Content-Type under multipart/digest was classified Message
C10_Witness ==
    /\ pc = "classified"
    /\ it.header.content_type = None
    /\ state.mime_type = "MultipartDigest"
    /\ result = Some(<<FALSE, FALSE, FALSE, "Message">>)

-----------------------------------------------------------------------------
(* C11 *)

\* what get_mime_type said of the header of the leaf of this step
Classified == GetMimeType(it'.header.content_type, state.mime_type)

\* the leaf of this step was classified multipart
MultipartLeaf == LeafStep /\ Classified[1]

\* the Content-Type of the leaf of this step has a boundary attribute
HasBoundaryAttribute == IsSome(Unwrap(it'.header.content_type).boundary)

\* the leaf of this step is handled as generic text and stored as a text part
StoredAsGenericText ==
    /\ it'.mime_type = "TextOther"
    /\ it'.is_text
    /\ ToAttachmentsOnly
    /\ Last(message'.attachments).tag = "Text"

\* C11 as stated: a multipart that is not descended into, its boundary
\* attribute absent or its delimiter not in the rest of the input, is handled
\* as TextOther with is_text set and stored as a text part.
C11_MultipartLeafIsText == [][MultipartLeaf => StoredAsGenericText]_vars

\* C11 amended: a multipart with a boundary attribute whose delimiter does
\* not occur in the rest of the input is handled as TextOther with is_text
\* set and stored as a text part; a multipart without boundary attribute
\* keeps its kind and, unless its payload had to be recovered, is stored as
\* MessagePart::Binary in attachments and in neither body list.
C11_DemotedWhenDelimiterMissing ==
    [][MultipartLeaf =>
         IF HasBoundaryAttribute
         THEN /\ StoredAsGenericText
              /\ Unwrap(Unwrap(it'.header.content_type).boundary) \in missing'
         ELSE IF it'.recovered
         THEN StoredAsGenericText
         ELSE /\ it'.mime_type = Classified[4]
              /\ ~it'.is_text
              /\ ~it'.is_inline
              /\ Len(message'.attachments) = Len(message.attachments) + 1
              /\ Last(message'.attachments).tag = "Binary"
              /\ message'.html_body = message.html_body
              /\ message'.text_body = message.text_body]_vars

\* a multipart with a boundary attribute was demoted and read as text, and
\* the loop goes on
C11_Witness ==
    /\ it.step = "leaf"
    /\ it.header.content_type # None
    /\ Unwrap(it.header.content_type).type = "multipart"
    /\ IsSome(Unwrap(it.header.content_type).boundary)
    /\ it.mime_type = "TextOther"
    /\ ~it.recovered
    /\ Last(message.attachments).tag = "Text"
    /\ pc = "inner"

-----------------------------------------------------------------------------
(* C12 *)

\* dst is what the synthesis makes of entry src of the other list
SynthesizedFrom(dst, src, to_html) ==
    IF src.tag = "Text"
    THEN /\ dst.tag = "Text"
         /\ dst.part.headers = None
         /\ dst.part.contents = IF to_html THEN TextToHtml(src.part.contents)
                                ELSE HtmlToText(src.part.contents)
    ELSE dst.tag = "InlineBinary" /\ dst.index = src.index

\* list `to` is list `was` followed by one synthesized entry for each entry
\* of from after the first n0, in their order
ExtendedFrom(to, was, from, n0, to_html) ==
    /\ Len(to) = Len(was) + Len(from) - n0
    /\ SubSeq(to, 1, Len(was)) = was
    /\ \A i \in 1..(Len(from) - n0) :
         SynthesizedFrom(to[Len(was) + i], from[n0 + i], to_html)

-----------------------------------------------------------------------------
(* C13 *)

\* e holds a string as it was decoded: the original of a text leaf
IsOriginal(e) == e.tag = "Text" /\ e.part.contents.conv = << >>

\* e is the copy made of original o for the other body list
IsCopyOf(e, o, to_html) == SynthesizedFrom(e, o, to_html)

\* to is list was with one more entry
OneMore(to, was) == Len(to) = Len(was) + 1 /\ SubSeq(to, 1, Len(was)) = was

\* C13: the original TextPart of a text leaf goes to html_body when
\* add_to_html is set and the leaf is text/html, to text_body when
\* add_to_text is set and the leaf is not HTML, and to attachments (as
\* MessagePart::Text) iff neither flag is set; it goes to one place; a
\* converted copy goes to the other body list only when the flag of that list
\* is set.
C13_TextLeafPlacement ==
    [][LeafStep /\ it'.is_text =>
         LET h == it'.add_to_html
             t == it'.add_to_text
             is_html == it'.mime_type = "TextHtml"
         IN /\ (h \/ t) => message'.attachments = message.attachments
            /\ ~(h \/ t) =>
                 /\ OneMore(message'.attachments, message.attachments)
                 /\ IsOriginal(Last(message'.attachments))
                 /\ message'.html_body = message.html_body
                 /\ message'.text_body = message.text_body
            /\ (h /\ is_html) =>
                 /\ OneMore(message'.html_body, message.html_body)
                 /\ IsOriginal(Last(message'.html_body))
                 /\ IF t
                    THEN /\ OneMore(message'.text_body, message.text_body)
                         /\ IsCopyOf(Last(message'.text_body), Last(message'.html_body), FALSE)
                    ELSE message'.text_body = message.text_body
            /\ (t /\ ~is_html) =>
                 /\ OneMore(message'.text_body, message.text_body)
                 /\ IsOriginal(Last(message'.text_body))
                 /\ IF h
                    THEN /\ OneMore(message'.html_body, message.html_body)
                         /\ IsCopyOf(Last(message'.html_body), Last(message'.text_body), TRUE)
                    ELSE message'.html_body = message.html_body
            /\ (h /\ ~is_html) => t
            /\ (t /\ is_html) => h]_vars

\* a text/html leaf with both flags set: the original in html_body, its
\* html_to_text copy in text_body, after an earlier attachment
C13_Witness ==
    /\ it.step = "leaf"
    /\ it.is_text
    /\ it.mime_type = "TextHtml"
    /\ it.add_to_html
    /\ it.add_to_text
    /\ pc \in {"outer", "inner"}
    /\ message.attachments # << >>
    /\ message.html_body # << >>
    /\ message.text_body # << >>
    /\ IsOriginal(Last(message.html_body))
    /\ Last(message.html_body).part.headers # None
    /\ IsCopyOf(Last(message.text_body), Last(message.html_body), FALSE)

-----------------------------------------------------------------------------
(* C14 *)

\* the condition under which the leaf of this step is to be inline
InlineCondition ==
    /\ Classified[2]
    /\ it'.header.disposition # Some("attachment")
    /\ \/ state'.parts = 1
       \/ /\ state.mime_type # "MultipartRelated"
          /\ \/ Classified[4] = "Inline"
             \/ it'.header.content_type = None
             \/ ~Unwrap(it'.header.content_type).name

\* C14: a leaf decoded without recovery is inline iff it is an inline
\* candidate, its disposition is not attachment, and it is the first part of
\* its level or the level is not multipart/related and the part is of kind
\* Inline or has no name attribute (or no Content-Type); a binary part is
\* stored as InlineBinary iff it is inline; and a part of a multipart/related
\* that is not the first goes to attachments and to neither body list.
C14_InlineRefinement ==
    [][LeafStep =>
         /\ ~it'.recovered =>
              /\ it'.is_inline <=> InlineCondition
              /\ ~it'.is_text =>
                   (Last(message'.attachments).tag = "InlineBinary" <=> InlineCondition)
         /\ (state.mime_type = "MultipartRelated" /\ state'.parts > 1) =>
              /\ ~it'.is_inline
              /\ ToAttachmentsOnly]_vars

\* the second part of a multipart/related, an image without name: it is not
\* inline and is in attachments only
C14_Witness ==
    /\ it.step = "leaf"
    /\ pc \in {"outer", "inner"}
    /\ state.mime_type = "MultipartRelated"
    /\ state.parts = 2
    /\ it.mime_type = "Inline"
    /\ it.header.disposition = None
    /\ ~it.is_inline
    /\ Len(message.attachments) = 1
    /\ message.attachments[1].tag = "Binary"
    /\ Len(message.html_body) = 1
    /\ Len(message.text_body) = 1

-----------------------------------------------------------------------------
(* C15 *)

\* m2 is message m1, but for header fields added to it
SameMessage(m2, m1) ==
    /\ m2.mid = m1.mid
    /\ m2.html_body = m1.html_body
    /\ m2.text_body = m1.text_body
    /\ m2.attachments = m1.attachments

\* the state as it is in an iteration after parts += 1
Counted == [state EXCEPT !.parts = @ + 1]

\* A message descent: the child state gets the boundary, the parent state is
\* stacked without it and otherwise as it is, the current message is stacked.
DescentMovesBoundary ==
    (pc = "outer" /\ it'.step = "message") =>
        /\ state'.mime_type = "Message"
        /\ state'.mime_boundary = state.mime_boundary
        /\ state_stack' = Append(state_stack, [Counted EXCEPT !.mime_boundary = None])
        /\ Len(message_stack') = Len(message_stack) + 1
        /\ SameMessage(Last(message_stack'), message)

\* The unwind loop closes an embedded message and goes on to the next part:
\* the parent state is the stacked one with the boundary of the child state,
\* the current message is the stacked one with the child attached.
CloseReturnsBoundary ==
    (pc = "inner" /\ it'.step = "next_closed") =>
        /\ state' = [Last(state_stack) EXCEPT !.mime_boundary = state.mime_boundary]
        /\ state_stack' = Front(state_stack)
        /\ message'.mid = Last(message_stack).mid
        /\ message'.html_body = Last(message_stack).html_body
        /\ message'.text_body = Last(message_stack).text_body
        /\ Front(message'.attachments) = Last(message_stack).attachments

\* Between the two: a stacked state does not change while it is stacked, a
\* state is stacked and popped as it is, and an iteration of the outer loop
\* that stacks nothing leaves the boundary and the kind of the current state.
BoundaryKept ==
    /\ \A i \in 1..Len(state_stack) :
         i <= Len(state_stack') => state_stack'[i] = state_stack[i]
    /\ (pc = "outer" /\ it'.step = "multipart") =>
         state_stack' = Append(state_stack, Counted)
    /\ (pc = "outer" /\ it'.step \in {"leaf", "leaf_break", "headers_end"}) =>
         /\ state'.mime_boundary = state.mime_boundary
         /\ state'.mime_type = state.mime_type
         /\ state_stack' = state_stack
    /\ (pc = "inner" /\ it'.step = "end" /\ state_stack # << >>) =>
         state' = Last(state_stack) /\ state_stack' = Front(state_stack)
    /\ (pc = "inner" /\ it'.step = "next") => state' = state /\ state_stack' = state_stack

\* C15: a message descent moves the boundary of the parent state to the child
\* state; nothing changes the stacked parent state or takes the boundary from
\* the child level meanwhile; and the unwind loop, closing the embedded
\* message, gives the boundary back to the parent state, whose other fields
\* are as they were stacked, and makes the stacked message current again.
C15_BoundaryMovesAndReturns ==
    [][DescentMovesBoundary /\ CloseReturnsBoundary /\ BoundaryKept]_vars

\* an embedded message of a multipart/mixed was closed at a delimiter that is
\* not the last: the multipart state is current again, with its boundary
C15_Witness ==
    /\ pc = "outer"
    /\ it.step = "next_closed"
    /\ state.mime_type = "MultipartMixed"
    /\ state.mime_boundary = Some("Y")
    /\ state.parts >= 2
    /\ Last(message.attachments).tag = "Message"
    /\ Last(message.attachments).message.text_body # << >>

-----------------------------------------------------------------------------
(* C16 *)

\* the levels, outermost first: the stacked states and the current one
Levels == Append(state_stack, state)

\* level i or a multipart level that encloses it within its message is a
\* multipart/alternative
WithinAlternative(i) ==
    \E j \in 1..i :
        /\ Levels[j].mime_type = "MultipartAlernative"
        /\ \A k \in j..i : Levels[k].mime_type # "Message"

\* C16: in_alternative of a level, current or stacked, is set iff the level
\* or a multipart level enclosing it within the same message is a
\* multipart/alternative; the level of an embedded message and that of the
\* root have in_alternative unset and both need flags set.
C16_InAlternative ==
    \A i \in DOMAIN Levels :
        /\ Levels[i].in_alternative <=> WithinAlternative(i)
        /\ Levels[i].mime_type = "Message" =>
             /\ ~Levels[i].in_alternative
             /\ Levels[i].need_html_body
             /\ Levels[i].need_text_body

\* an embedded message inside a multipart/mixed inside a multipart/alternative
C16_Witness ==
    /\ pc = "outer"
    /\ Len(state_stack) >= 3
    /\ state.mime_type = "Message"
    /\ ~state.in_alternative
    /\ Last(state_stack).mime_type = "MultipartMixed"
    /\ Last(state_stack).in_alternative
    /\ state_stack[Len(state_stack) - 1].mime_type = "MultipartAlernative"

-----------------------------------------------------------------------------
(* C17 *)

\* C17: when the unwind loop runs at a level of kind Message, both stacks
\* are non-empty, so the branch of the failed restore is not taken; and while
\* the loops run message_stack is not longer than state_stack.
C17_NoStackUnderflow ==
    /\ (pc = "inner" /\ state.mime_type = "Message") =>
           /\ IsSome(state.mime_boundary)
           /\ message_stack # << >>
           /\ state_stack # << >>
    /\ it.step # "underflow"
    /\ pc \in {"outer", "inner"} => Len(message_stack) <= Len(state_stack)

\* the unwind loop is about to run at the level of an embedded message nested
\* in another embedded message
C17_Witness ==
    /\ pc = "inner"
    /\ state.mime_type = "Message"
    /\ Len(message_stack) = 2
    /\ Len(state_stack) >= 3

-----------------------------------------------------------------------------
(* C18 *)

\* the levels of embedded messages at or below level i
EmbeddedLevels(i) == {k \in 2..i : Levels[k].mime_type = "Message"}

\* the message level i belongs to
MessageOf(i) == OpenChain[1 + Cardinality(EmbeddedLevels(i))]

\* C18: while the loops run, each open message has its level, so that the
\* current message is the one of the current level; the lengths saved at the
\* entry of a multipart level are not above the lengths of the lists of its
\* message; the lengths the synthesis starts its slices at are not above
\* those of the lists of the current message; and the synthesis does not
\* panic.
C18_SynthesisInRange ==
    /\ pc # "panic"
    /\ pc \in {"outer", "inner"} =>
         /\ Cardinality(EmbeddedLevels(Len(Levels))) = Len(message_stack)
         /\ \A i \in 2..Len(Levels) :
              Levels[i].mime_type # "Message" =>
                /\ Levels[i].html_parts <= Len(MessageOf(i).html_body)
                /\ Levels[i].text_parts <= Len(MessageOf(i).text_body)
    /\ (pc = "inner" /\ UnwindLevel.state.mime_type = "MultipartAlernative") =>
         /\ UnwindLevel.state.html_parts <= Len(UnwindLevel.message.html_body)
         /\ UnwindLevel.state.text_parts <= Len(UnwindLevel.message.text_body)

\* a multipart/alternative with a text/html part and an embedded message has
\* ended and text_body was synthesized
C18_Witness ==
    /\ it.step = "end_closed"
    /\ message.mid = 0
    /\ message.headers.content_type # None
    /\ Unwrap(message.headers.content_type).subtype = Some("alternative")
    /\ Len(message.html_body) = 1
    /\ Len(message.text_body) = 1
    /\ message.text_body[1].tag = "Text"
    /\ message.text_body[1].part.contents.conv = <<"html_to_text">>
    /\ message.attachments # << >>
    /\ Last(message.attachments).tag = "Message"
    /\ Last(message.attachments).message.text_body # << >>

-----------------------------------------------------------------------------
(* C19 *)

\* every level outside alternatives needs both bodies
NeedOutsideAlternative ==
    \A i \in DOMAIN Levels :
        ~Levels[i].in_alternative =>
            Levels[i].need_html_body /\ Levels[i].need_text_body

\* the need flags of s2 are those of s1
SameNeeds(s2, s1) ==
    /\ s2.need_html_body = s1.need_html_body
    /\ s2.need_text_body = s1.need_text_body

\* A flag changes only at a leaf, from set to unset, at a level that is
\* nested in an alternative and is not one itself; a multipart level gets
\* the flags of the level it is entered from; a stacked level keeps its
\* flags, and has them when the level above it is popped.
NeedsChange ==
    /\ (pc = "outer" /\ it'.step = "leaf") =>
         /\ state'.need_html_body => state.need_html_body
         /\ state'.need_text_body => state.need_text_body
         /\ ~SameNeeds(state', state) =>
              state.in_alternative /\ state.mime_type # "MultipartAlernative"
    /\ (pc = "outer" /\ it'.step = "multipart") =>
         /\ SameNeeds(state', state)
         /\ SameNeeds(Last(state_stack'), state)
    /\ \A i \in 1..Len(state_stack) :
         i <= Len(state_stack') => SameNeeds(state_stack'[i], state_stack[i])
    /\ (pc = "inner" /\ it'.step = "end" /\ state_stack # << >>) =>
         SameNeeds(state', Last(state_stack))
    /\ (pc = "inner" /\ it'.step \in {"next", "next_closed"}) =>
         SameNeeds(state', UnwindLevel.state)

\* C19: in every state, current or stacked, in_alternative unset implies
\* both need flags set; a need flag is cleared only at a level nested in a
\* multipart/alternative, is inherited by the levels entered from that level,
\* and is gone when that level is popped, the parent having the flags it was
\* stacked with.
C19_NeedFlags == [][NeedsChange /\ NeedOutsideAlternative']_vars

\* a text/plain part cleared need_html_body at a multipart/mixed nested in a
\* multipart/alternative; the stacked alternative still has both flags
C19_Witness ==
    /\ pc \in {"outer", "inner"}
    /\ it.step = "leaf"
    /\ it.mime_type = "TextPlain"
    /\ state.mime_type = "MultipartMixed"
    /\ state.in_alternative
    /\ ~state.need_html_body
    /\ state.need_text_body
    /\ Last(state_stack).need_html_body
    /\ Last(state_stack).need_text_body

-----------------------------------------------------------------------------
(* C20 *)

\* the unwind loop has ended at a delimiter that is not the last and the
\* outer loop is to parse the headers of the next part
AtNextSibling == pc = "outer" /\ it.step \in {"next", "next_closed"}

\* C20: when the unwind loop has ended at a delimiter that is not the last,
\* the current state is that of the multipart (its kind is not Message), and
\* the headers of the next part are not parsed into the headers of the
\* current message.
C20_SiblingAtMultipartLevel ==
    [][AtNextSibling =>
         /\ state.mime_type # "Message"
         /\ message'.mid = message.mid => message'.headers = message.headers]_vars

====
